---- MODULE Spec2Model ----
(***************************************************************************)
(* A/B test calculator (cxl-calculator): the significance analysis of a    *)
(* finished test and the minimum-detectable-effect planner, in each of the *)
(* revisions of the page that the repository carries.                     *)
(*                                                                         *)
(* JavaScript numbers are IEEE-754 doubles.  The model keeps two kinds of  *)
(* number:                                                                 *)
(*   - exact numbers, records [k, n, d, e] standing for (n/d) * 2^(300*e): *)
(*     a reduced fraction of small integers and a magnitude level e.  The  *)
(*     level carries the double's exponent range: a result below level     *)
(*     MinExp underflows to 0, one above MaxExp overflows to Infinity, and *)
(*     a sum of two levels is the operand of the larger level (the other   *)
(*     is below half an ulp).  Division by zero gives Infinity or NaN.     *)
(*   - fixed-point numbers, integers m standing for m / FxScale, for       *)
(*     everything behind Math.sqrt, Math.exp and Math.log.                 *)
(***************************************************************************)
EXTENDS Integers, Sequences, FiniteSets, TLC

VARIABLES mode, visitorsA, conversionsA, visitorsB, conversionsB, testDuration,
          weeklyTraffic, weeklyConversions, confidence, power,
          call,            \* the last call of a utility function: its argument and what it returned
          localStorage,    \* window.localStorage: the items that are set, by key
          memo,            \* the useMemo cell of the mounted component
          shareUrl,        \* the query of the link that Share shows
          searchParams     \* the query of the URL that the page was opened with

pageVars == <<mode, visitorsA, conversionsA, visitorsB, conversionsB, testDuration,
              weeklyTraffic, weeklyConversions, confidence, power>>

browserVars == <<localStorage, memo, shareUrl, searchParams>>

vars == <<pageVars, call, browserVars>>

testVars == <<visitorsA, conversionsA, visitorsB, conversionsB, testDuration>>
preTestVars == <<weeklyTraffic, weeklyConversions, confidence, power>>

----------------------------------------------------------------------------
(* Bounds of the model *)

\* largest visitor / conversion count typed into the test-analysis form
MaxCount == 3
\* largest weekly traffic / conversions typed into the pre-test form
MaxTraffic == 6

----------------------------------------------------------------------------
(* Exact numbers: (n/d) * 2^(300*e) *)

\* levels of the double's exponent range, in units of 2^300:
\* 2^(300*3) is finite, 2^(300*4) is above 2^1024; 2^(-300*3) is a normal
\* double, 2^(-300*4) is below the least subnormal 2^-1074
MaxExp == 1023 \div 300
MinExp == -(1074 \div 300)
\* level of a count of 2^600 typed into a field ("1e180" and the like)
HugeExp == 600 \div 300

Abs(x) == IF x < 0 THEN -x ELSE x

RECURSIVE GCD(_, _)
GCD(a, b) == IF b = 0 THEN a ELSE GCD(b, a % b)

Zero == [k |-> "num", n |-> 0, d |-> 1, e |-> 0]
Infinity == [k |-> "inf", n |-> 1, d |-> 1, e |-> 0]
NegInfinity == [k |-> "inf", n |-> -1, d |-> 1, e |-> 0]
NaN == [k |-> "nan", n |-> 0, d |-> 1, e |-> 0]
\* JavaScript null
Null == [k |-> "null", n |-> 0, d |-> 1, e |-> 0]
\* the empty string of an untouched input field
Empty == [k |-> "empty", n |-> 0, d |-> 1, e |-> 0]

\* the double nearest to (n/d) * 2^(300*e), d # 0
R(n, d, e) ==
    LET s == IF d < 0 THEN -1 ELSE 1
        g == GCD(Abs(n), Abs(d))
    IN  IF n = 0 THEN Zero
        ELSE IF e < MinExp THEN Zero
        ELSE IF e > MaxExp THEN (IF s * n > 0 THEN Infinity ELSE NegInfinity)
        ELSE [k |-> "num", n |-> (s * n) \div g, d |-> (s * d) \div g, e |-> e]

Int2R(i) == R(i, 1, 0)
One == Int2R(1)
Huge == R(1, 1, HugeExp)

IsNum(a) == a.k = "num"

RNeg(a) == [a EXCEPT !.n = -a.n]

\* a + b on finite doubles
RAdd(a, b) ==
    IF a.n = 0 THEN b
    ELSE IF b.n = 0 THEN a
    ELSE IF a.e > b.e THEN a
    ELSE IF b.e > a.e THEN b
    ELSE R(a.n * b.d + b.n * a.d, a.d * b.d, a.e)

\* a - b on finite doubles
RSub(a, b) == RAdd(a, RNeg(b))

\* a * b on finite doubles
RMul(a, b) == R(a.n * b.n, a.d * b.d, a.e + b.e)

\* a / b on finite doubles: x/0 is Infinity, -Infinity or NaN
RDiv(a, b) ==
    IF b.n = 0
    THEN (IF a.n > 0 THEN Infinity ELSE IF a.n < 0 THEN NegInfinity ELSE NaN)
    ELSE R(a.n * b.d, a.d * b.n, a.e - b.e)

\* a < b, a <= b, a > b on finite doubles
RLt(a, b) == RSub(a, b).n < 0
RLe(a, b) == RSub(a, b).n <= 0
RGt(a, b) == RLt(b, a)

\* Number(field): the empty string converts to 0
Number(f) == IF f.k = "empty" THEN Zero ELSE f

----------------------------------------------------------------------------
(* Fixed-point numbers: the integer m stands for m / FxScale.  Products    *)
(* and quotients are rounded to the nearest unit; a non-zero operand never *)
(* gives a zero product, quotient or root (a double keeps 2^-1074 of       *)
(* range; real underflow is the business of the levels above), and values  *)
(* beyond FxMax / FxScale saturate at FxMax.                               *)

FxScale == 10 ^ 4
FxMax == 2 ^ 30 + (2 ^ 30 - 1)
FxOne == FxScale

Sign(x) == IF x < 0 THEN -1 ELSE 1

\* a * b
FxMul(a, b) ==
    LET x == Abs(a)
        y == Abs(b)
        xh == x \div FxScale
        xl == x % FxScale
        yh == y \div FxScale
        yl == y % FxScale
        m == xh * yh * FxScale + xh * yl + xl * yh + (xl * yl + FxScale \div 2) \div FxScale
    IN  IF a = 0 \/ b = 0 THEN 0
        ELSE IF yh + 1 > (FxMax \div FxScale) \div (xh + 1) THEN Sign(a) * Sign(b) * FxMax
        ELSE IF m = 0 THEN Sign(a) * Sign(b)
        ELSE Sign(a) * Sign(b) * m

\* a / b, b # 0
FxDiv(a, b) ==
    LET big == Abs(b) > FxMax \div 100
        x == IF big THEN Abs(a) \div 100 ELSE Abs(a)
        y == IF big THEN Abs(b) \div 100 ELSE Abs(b)
        q0 == x \div y
        r0 == x % y
        q1 == (r0 * 100) \div y
        r1 == (r0 * 100) % y
        q2 == (r1 * 100) \div y
        r2 == (r1 * 100) % y
        m == q0 * FxScale + q1 * 100 + q2 + (IF 2 * r2 >= y THEN 1 ELSE 0)
    IN  IF a = 0 THEN 0
        ELSE IF q0 >= FxMax \div FxScale THEN Sign(a) * Sign(b) * FxMax
        ELSE IF m = 0 THEN Sign(a) * Sign(b)
        ELSE Sign(a) * Sign(b) * m

\* a + b
FxAdd(a, b) ==
    IF a > 0 /\ b > FxMax - a THEN FxMax
    ELSE IF a < 0 /\ b < (-FxMax) - a THEN -FxMax
    ELSE a + b

\* (a + b) / 2, zero only when a + b is zero
FxHalf(x) == Sign(x) * ((Abs(x) + 1) \div 2)

\* the fixed-point number nearest to n / d, d > 0
FxOfFrac(n, d) == FxDiv(n, d)

\* Math.pow(x, k) and x ** k for a small whole k >= 1
RECURSIVE FxPow(_, _)
FxPow(x, k) == IF k = 1 THEN x ELSE FxMul(FxPow(x, k - 1), x)

\* the whole square root of n >= 0
RECURSIVE ISqrt(_)
ISqrt(n) ==
    IF n < 2 THEN n
    ELSE LET s == 2 * ISqrt(n \div 4)
         IN  IF s + 1 <= n \div (s + 1) THEN s + 1 ELSE s

\* Math.sqrt(x), 0 <= x
FxSqrt(x) ==
    IF x = 0 THEN 0
    ELSE IF x > FxMax \div FxScale THEN 100 * ISqrt(x)
    ELSE LET r == ISqrt(x * FxScale) IN IF r = 0 THEN 1 ELSE r

\* the terms x^i / i! of the exponential series, i = from..upto, term = x^from/from!
RECURSIVE ExpSeries(_, _, _, _)
ExpSeries(x, term, from, upto) ==
    IF from > upto \/ Abs(term) <= 1 THEN 0
    ELSE term + ExpSeries(x, FxDiv(FxMul(term, x), (from + 1) * FxScale), from + 1, upto)

\* e^-1
FxInvE == FxOfFrac(36788, 100000)

RECURSIVE FxInvEPow(_)
FxInvEPow(k) == IF k = 0 THEN FxOne ELSE FxMul(FxInvE, FxInvEPow(k - 1))

\* Math.exp(-x), x >= 0: e^-x is 0 as a double once x > 745
FxExpNeg(x) ==
    LET k == x \div FxScale
        f == x % FxScale
    IN  IF k > 745 THEN 0
        ELSE IF k >= 10 THEN 1
        ELSE FxMul(FxInvEPow(k), FxOne + ExpSeries(-f, -f, 1, 12))

\* the terms u^i / i of the series of atanh, i = from, from + 2, ..., upto
RECURSIVE AtanhSeries(_, _, _, _)
AtanhSeries(u2, upow, from, upto) ==
    IF from > upto \/ Abs(upow) <= 1 THEN 0
    ELSE FxDiv(upow, from * FxScale) + AtanhSeries(u2, FxMul(upow, u2), from + 2, upto)

\* ln 2
FxLn2 == FxOfFrac(69315, 100000)

\* Math.log(x), x <= 1: x is doubled up into [1/2, 1] first; the logarithm
\* of 0 is -Infinity
RECURSIVE FxLog(_)
FxLog(x) ==
    IF x <= 0 THEN -FxMax
    ELSE IF 2 * x <= FxOne THEN FxLog(2 * x) - FxLn2
    ELSE LET u == FxDiv(x - FxOne, x + FxOne)
         IN  2 * AtanhSeries(FxMul(u, u), u, 1, 9)

----------------------------------------------------------------------------
(* Utility functions *)

\* a fixed-point number with a level, m / FxScale * 2^(300*e): the values
\* behind the square root of an exact number
FxL(m, e) == IF m = 0 THEN [m |-> 0, e |-> 0] ELSE [m |-> m, e |-> e]

\* t * 10^k / d for t, d > 0, keeping the digits that fit
RECURSIVE ScaleDiv(_, _, _)
ScaleDiv(t, d, k) ==
    IF k = 0 THEN t \div d
    ELSE IF t <= FxMax \div 10 THEN ScaleDiv(10 * t, d, k - 1)
    ELSE IF d >= 10 ^ 5 THEN ScaleDiv(t, (d + 5) \div 10, k - 1)
    ELSE IF t \div d > FxMax \div (10 ^ k) THEN FxMax
    ELSE (t \div d) * 10 ^ k

\* the whole number nearest to the square root of x >= 0
RoundSqrt(x) == IF x - ISqrt(x) * ISqrt(x) > ISqrt(x) THEN ISqrt(x) + 1 ELSE ISqrt(x)

\* Math.sqrt(n / d) for n, d > 0 and n / d below 20: the root of the eight
\* decimals of n / d
FxSqrtOfFrac(n, d) ==
    IF RoundSqrt(ScaleDiv(n, d, 8)) = 0 THEN 1 ELSE RoundSqrt(ScaleDiv(n, d, 8))

\* Math.sqrt of an exact number (its level is even). The validated counts
\* give an argument a >= 0; the root is defined as 0 below that.
RSqrt(a) ==
    IF a.n <= 0 THEN FxL(0, 0)
    ELSE IF a.n \div a.d >= 20 THEN FxL(FxSqrt(FxOfFrac(a.n, a.d)), a.e \div 2)
    ELSE FxL(FxSqrtOfFrac(a.n, a.d), a.e \div 2)

\* exact a / fixed-point b, b # 0
RDivFx(a, b) == FxL(FxDiv(FxOfFrac(a.n, a.d), b.m), a.e - b.e)

\* z as a plain fixed-point number with its sign kept
FxSignedOf(z) == IF z.e > 0 THEN Sign(z.m) * FxMax ELSE IF z.e < 0 THEN 0 ELSE z.m

\* Math.abs(z) as a plain fixed-point number: above level 0 it is beyond
\* every fixed-point value, below level 0 it is less than any unit
FxAbsOf(z) == IF z.e > 0 THEN FxMax ELSE IF z.e < 0 THEN 0 ELSE Abs(z.m)

\* the sign of the CDF taken as 1 for every z
CdfSignPositive(z) == 1

\* z >= 0 ? 1 : -1
CdfSign(z) == IF z >= 0 THEN 1 ELSE -1

standardNormalCdf(z) ==
    LET p == FxOfFrac(3275911, 10000000)
        a1 == FxOfFrac(254829592, 1000000000)
        a2 == FxOfFrac(-284496736, 1000000000)
        a3 == FxOfFrac(1421413741, 1000000000)
        a4 == FxOfFrac(-1453152027, 1000000000)
        a5 == FxOfFrac(1061405429, 1000000000)
        sign == CdfSign(z)
        t == FxDiv(FxOne, FxAdd(FxOne, FxMul(p, Abs(z))))
        poly == FxMul(a1, t) + FxMul(a2, FxPow(t, 2)) + FxMul(a3, FxPow(t, 3))
                + FxMul(a4, FxPow(t, 4)) + FxMul(a5, FxPow(t, 5))
        erf == FxOne - FxMul(poly, FxExpNeg(FxPow(z, 2)))
    IN  FxMul(FxOfFrac(1, 2), FxOne + sign * erf)

\* the guard of the inverse CDF with both comparisons strict
InverseCdfOutOfDomainStrict(p) == p < 0 \/ p > FxOne

\* p <= 0 || p >= 1
InverseCdfOutOfDomain(p) == p <= 0 \/ p >= FxOne

\* the arguments that a call with p passes to Math.log
InverseCdfLogArguments(p) ==
    IF InverseCdfOutOfDomain(p) THEN {}
    ELSE IF p < FxOfFrac(1, 2) THEN {p}
    ELSE {FxOne - p}

\* a * x + b, the step of the polynomials
FxStep(a, x, b) == FxAdd(FxMul(a, x), b)

\* the two rational functions of q = sqrt(-2 ln p) and sqrt(-2 ln (1 - p))
standardNormalInverseCdf(p) ==
    LET a == <<FxOfFrac(-396968303, 10000000), FxOfFrac(220946098, 1000000),
               FxOfFrac(-275928510, 1000000), FxOfFrac(138357752, 1000000),
               FxOfFrac(-306647981, 10000000), FxOfFrac(250662828, 100000000)>>
        b == <<FxOfFrac(-544760988, 10000000), FxOfFrac(161585837, 1000000),
               FxOfFrac(-155698980, 1000000), FxOfFrac(668013119, 10000000),
               FxOfFrac(-132806816, 10000000)>>
        c == <<FxOfFrac(-7784894, 1000000000), FxOfFrac(-322396458, 1000000000),
               FxOfFrac(-240075828, 100000000), FxOfFrac(-254973254, 100000000),
               FxOfFrac(437466414, 100000000), FxOfFrac(293816398, 100000000)>>
        d == <<FxOfFrac(7784696, 1000000000), FxOfFrac(322467129, 1000000000),
               FxOfFrac(244513414, 100000000), FxOfFrac(375440866, 100000000)>>
        qLow == FxSqrt(FxMul(-2 * FxScale, FxLog(p)))
        numLow == FxStep(FxStep(FxStep(FxStep(FxStep(a[1], qLow, a[2]), qLow, a[3]),
                                       qLow, a[4]), qLow, a[5]), qLow, a[6])
        denLow == FxStep(FxStep(FxStep(FxStep(FxStep(b[1], qLow, b[2]), qLow, b[3]),
                                       qLow, b[4]), qLow, b[5]), qLow, FxOne)
        qHigh == FxSqrt(FxMul(-2 * FxScale, FxLog(FxOne - p)))
        numHigh == FxStep(FxStep(FxStep(FxStep(FxStep(c[1], qHigh, c[2]), qHigh, c[3]),
                                        qHigh, c[4]), qHigh, c[5]), qHigh, c[6])
        denHigh == FxStep(FxStep(FxStep(FxStep(d[1], qHigh, d[2]), qHigh, d[3]),
                                 qHigh, d[4]), qHigh, FxOne)
    IN  IF InverseCdfOutOfDomain(p) THEN 0
        ELSE IF p < FxOfFrac(1, 2) THEN FxDiv(numLow, denLow)
        ELSE -FxDiv(numHigh, denHigh)

----------------------------------------------------------------------------
(* Mode 1: test analysis *)

\* a nullable fixed-point field of a result
FxVal(m) == [k |-> "fx", m |-> m]
FxNull == [k |-> "null", m |-> 0]

\* results === null
NoResult ==
    [ret |-> "null", convRateA |-> Null, convRateB |-> Null, uplift |-> Null,
     confidence |-> FxNull, isSignificant |-> FALSE, pValue |-> FxNull]

Result(rA, rB, up, conf, sig, pv) ==
    [ret |-> "record", convRateA |-> rA, convRateB |-> rB, uplift |-> up,
     confidence |-> conf, isSignificant |-> sig, pValue |-> pv]

\* the guard without its last comparison
InvalidCountsNoUpperB(vA, cA, vB, cB) ==
    \/ RLe(vA, Zero)
    \/ RLt(cA, Zero)
    \/ RLe(vB, Zero)
    \/ RLt(cB, Zero)
    \/ RGt(cA, vA)

\* the guard of every revision of the analysis
InvalidCounts(vA, cA, vB, cB) ==
    \/ RLe(vA, Zero)
    \/ RLt(cA, Zero)
    \/ RLe(vB, Zero)
    \/ RLt(cB, Zero)
    \/ RGt(cA, vA)
    \/ RGt(cB, vB)

\* the rate of the control arm in the place of the pooled rate
pooledProbOfControl(vA, cA, vB, cB) == RDiv(cA, vA)

pooledProb(vA, cA, vB, cB) == RDiv(RAdd(cA, cB), RAdd(vA, vB))

\* the argument of Math.sqrt in stdError
stdErrorSq(vA, cA, vB, cB) ==
    RMul(RMul(pooledProb(vA, cA, vB, cB), RSub(One, pooledProb(vA, cA, vB, cB))),
         RAdd(RDiv(One, vA), RDiv(One, vB)))

stdError(vA, cA, vB, cB) == RSqrt(stdErrorSq(vA, cA, vB, cB))

\* the confidence of the branch stdError === 0 with the outcomes of the
\* unequal rates exchanged
ZeroStdErrorConfidenceSwapped(convRateA, convRateB) ==
    IF convRateA = convRateB THEN FxVal(FxOfFrac(1, 2))
    ELSE IF RGt(convRateB, convRateA) THEN FxVal(0) ELSE FxVal(FxOne)

\* convRateA === convRateB ? 0.5 : (convRateB > convRateA ? 1 : 0)
ZeroStdErrorConfidence(convRateA, convRateB) ==
    IF convRateA = convRateB THEN FxVal(FxOfFrac(1, 2))
    ELSE IF RGt(convRateB, convRateA) THEN FxVal(FxOne) ELSE FxVal(0)

\* the branch stdError === 0 with isSignificant taken from the confidence
ZeroStdErrorResultByConfidence(convRateA, convRateB, uplift) ==
    Result(convRateA, convRateB, uplift,
           ZeroStdErrorConfidence(convRateA, convRateB),
           ZeroStdErrorConfidence(convRateA, convRateB).m >= FxOfFrac(95, 100),
           IF convRateA = convRateB THEN FxVal(FxOne) ELSE FxVal(0))

\* the branch stdError === 0
ZeroStdErrorResult(convRateA, convRateB, uplift) ==
    Result(convRateA, convRateB, uplift,
           ZeroStdErrorConfidence(convRateA, convRateB),
           FALSE,
           IF convRateA = convRateB THEN FxVal(FxOne) ELSE FxVal(0))

\* the Z-test with a one-tailed p-value
ZTestResultOneTailed(convRateA, convRateB, uplift, se) ==
    LET zScore == RDivFx(RSub(convRateB, convRateA), se)
        pValue == FxOne - standardNormalCdf(FxAbsOf(zScore))
        conf == FxOne - pValue
        isSignificant == conf >= FxOfFrac(95, 100)
    IN  Result(convRateA, convRateB, uplift, FxVal(conf), isSignificant, FxVal(pValue))

\* the two-tailed Z-test
ZTestResult(convRateA, convRateB, uplift, se) ==
    LET zScore == RDivFx(RSub(convRateB, convRateA), se)
        pValue == 2 * (FxOne - standardNormalCdf(FxAbsOf(zScore)))
        conf == FxOne - pValue
        isSignificant == conf >= FxOfFrac(95, 100)
    IN  Result(convRateA, convRateB, uplift, FxVal(conf), isSignificant, FxVal(pValue))

\* TestAnalysis: results of the two-mode page
TestAnalysis(fvA, fcA, fvB, fcB) ==
    LET vA == Number(fvA)
        cA == Number(fcA)
        vB == Number(fvB)
        cB == Number(fcB)
        convRateA == RDiv(cA, vA)
        convRateB == RDiv(cB, vB)
        uplift == RDiv(RSub(convRateB, convRateA), convRateA)
        se == stdError(vA, cA, vB, cB)
    IN  IF InvalidCounts(vA, cA, vB, cB) THEN NoResult
        ELSE IF convRateA = Zero
        THEN Result(convRateA, convRateB,
                    IF RGt(convRateB, Zero) THEN Infinity ELSE Zero,
                    FxNull, FALSE, FxNull)
        ELSE IF se.m = 0 THEN ZeroStdErrorResult(convRateA, convRateB, uplift)
        ELSE ZTestResult(convRateA, convRateB, uplift, se)

\* CalculatorPage: results of the first, single-mode page
CalculatorPage(fvA, fcA, fvB, fcB) ==
    LET vA == Number(fvA)
        cA == Number(fcA)
        vB == Number(fvB)
        cB == Number(fcB)
        convRateA == RDiv(cA, vA)
        convRateB == RDiv(cB, vB)
        uplift == RDiv(RSub(convRateB, convRateA), convRateA)
        se == stdError(vA, cA, vB, cB)
    IN  IF InvalidCounts(vA, cA, vB, cB) THEN NoResult
        ELSE IF convRateA = Zero /\ RGt(convRateB, Zero)
        THEN Result(convRateA, convRateB, Infinity, FxNull, FALSE, FxNull)
        ELSE IF convRateA = Zero /\ convRateB = Zero
        THEN Result(Zero, Zero, Zero, FxNull, FALSE, FxNull)
        ELSE IF se.m = 0 THEN ZeroStdErrorResult(convRateA, convRateB, uplift)
        ELSE ZTestResult(convRateA, convRateB, uplift, se)

\* A fixed-point number with a level, m / FxScale * 2^(300*e), or Infinity
\* or NaN: the doubles of the time projection
LZero == [k |-> "num", m |-> 0, e |-> 0]
LInfinity == [k |-> "inf", m |-> FxMax, e |-> 0]
LNaN == [k |-> "nan", m |-> 0, e |-> 0]
LNum(m, e) ==
    IF m = 0 \/ e < MinExp THEN LZero
    ELSE IF e > MaxExp THEN LInfinity
    ELSE [k |-> "num", m |-> m, e |-> e]

\* z * Math.sqrt(a) for a fixed-point z and an exact a >= 0
LScaledSqrt(z, a) == LNum(FxMul(z, RSqrt(a).m), RSqrt(a).e)

\* a + b for positive finite a, b: the higher level absorbs the lower
LAdd(a, b) ==
    IF a.m = 0 THEN b
    ELSE IF b.m = 0 THEN a
    ELSE IF a.e > b.e THEN a
    ELSE IF b.e > a.e THEN b
    ELSE LNum(FxAdd(a.m, b.m), a.e)

\* a ** 2
LSquare(a) == LNum(FxMul(a.m, a.m), 2 * a.e)

\* 2 * a
LDouble(a) == IF a.k = "num" THEN LNum(FxAdd(a.m, a.m), a.e) ELSE a

\* a / r for an exact r >= 0: x / 0 is Infinity, 0 / 0 is NaN
LDivR(a, r) ==
    IF a.k # "num" THEN a
    ELSE IF r.n = 0 THEN (IF a.m = 0 THEN LNaN ELSE LInfinity)
    ELSE LNum(FxDiv(FxMul(a.m, r.d * FxScale), r.n * FxScale), a.e - r.e)

\* Math.ceil(a), a >= 0, as an exact number
LCeil(a) ==
    IF a.k = "inf" THEN Infinity
    ELSE IF a.k = "nan" THEN NaN
    ELSE IF a.m = 0 THEN Zero
    ELSE IF a.e < 0 THEN One
    ELSE IF a.e > 0 THEN R(a.m, FxScale, a.e)
    ELSE Int2R((a.m + (FxScale - 1)) \div FxScale)

\* the string 'N/A' in a projection field
NotApplicable == [k |-> "N/A", n |-> 0, d |-> 1, e |-> 0]

\* the condition of the time projection without convRateA !== convRateB
ProjectionAppliesToEqualRates(duration, convRateA, convRateB) ==
    /\ RGt(duration, Zero)
    /\ RGt(convRateA, Zero) /\ RLt(convRateA, One)
    /\ RGt(convRateB, Zero) /\ RLt(convRateB, One)

\* the condition of the time projection
ProjectionApplies(duration, convRateA, convRateB) ==
    /\ RGt(duration, Zero)
    /\ RGt(convRateA, Zero) /\ RLt(convRateA, One)
    /\ RGt(convRateB, Zero) /\ RLt(convRateB, One)
    /\ convRateA # convRateB

\* the sample size per variation that the observed rates call for
requiredNPerVariation(vA, cA, vB, cB) ==
    LET Z_ALPHA == standardNormalInverseCdf(FxOne - FxDiv(FxOfFrac(5, 100), 2 * FxScale))
        Z_BETA == standardNormalInverseCdf(FxOne - FxOfFrac(2, 10))
        p1 == RDiv(cA, vA)
        p2 == RDiv(cB, vB)
        pooled == pooledProb(vA, cA, vB, cB)
        spread == RAdd(RMul(p1, RSub(One, p1)), RMul(p2, RSub(One, p2)))
    IN  LDivR(LSquare(LAdd(LScaledSqrt(Z_ALPHA, RMul(RMul(Int2R(2), pooled), RSub(One, pooled))),
                           LScaledSqrt(Z_BETA, spread))),
              RMul(RSub(p1, p2), RSub(p1, p2)))

\* the time projection with extraDays reported as it comes, below 0 too
TimeProjectionUnclamped(vA, cA, vB, cB, duration) ==
    LET totalVisitorsPerDay == RDiv(RAdd(vA, vB), duration)
        requiredTotalVisitors == LDouble(requiredNPerVariation(vA, cA, vB, cB))
        requiredTotalDays == LCeil(LDivR(requiredTotalVisitors, totalVisitorsPerDay))
        extraDays == IF IsNum(requiredTotalDays) THEN RSub(requiredTotalDays, duration)
                     ELSE requiredTotalDays
    IN  IF ~ProjectionApplies(duration, RDiv(cA, vA), RDiv(cB, vB))
        THEN [additionalDaysNeeded |-> Null, projectedTotalDuration |-> Null]
        ELSE [additionalDaysNeeded |-> extraDays,
              projectedTotalDuration |-> IF IsNum(extraDays) THEN RAdd(duration, extraDays)
                                         ELSE extraDays]

\* the two fields of the time projection
TimeProjection(vA, cA, vB, cB, duration) ==
    LET totalVisitorsPerDay == RDiv(RAdd(vA, vB), duration)
        requiredTotalVisitors == LDouble(requiredNPerVariation(vA, cA, vB, cB))
        requiredTotalDays == LCeil(LDivR(requiredTotalVisitors, totalVisitorsPerDay))
        extraDays == IF IsNum(requiredTotalDays) THEN RSub(requiredTotalDays, duration)
                     ELSE requiredTotalDays
        additionalDaysNeeded == IF extraDays.k # "nan" /\ RGt(extraDays, Zero)
                                THEN extraDays ELSE Zero
    IN  IF ~ProjectionApplies(duration, RDiv(cA, vA), RDiv(cB, vB))
        THEN [additionalDaysNeeded |-> Null, projectedTotalDuration |-> Null]
        ELSE IF RGt(totalVisitorsPerDay, Zero)
        THEN [additionalDaysNeeded |-> additionalDaysNeeded,
              projectedTotalDuration |-> IF IsNum(additionalDaysNeeded)
                                         THEN RAdd(duration, additionalDaysNeeded)
                                         ELSE additionalDaysNeeded]
        ELSE [additionalDaysNeeded |-> NotApplicable, projectedTotalDuration |-> NotApplicable]

\* the six fields that the analysis with the time projection shares with
\* the other revisions
SharedFieldsDuration(vA, cA, vB, cB) ==
    LET convRateA == RDiv(cA, vA)
        convRateB == RDiv(cB, vB)
        uplift == RDiv(RSub(convRateB, convRateA), convRateA)
        se == stdError(vA, cA, vB, cB)
    IN  IF se.m > 0 THEN ZTestResult(convRateA, convRateB, uplift, se)
        ELSE ZeroStdErrorResult(convRateA, convRateB, uplift)

\* TestAnalysis of the page with persisted, shareable fields
TestAnalysisDuration(fvA, fcA, fvB, fcB, fDuration) ==
    LET vA == Number(fvA)
        cA == Number(fcA)
        vB == Number(fvB)
        cB == Number(fcB)
        duration == Number(fDuration)
        shared == SharedFieldsDuration(vA, cA, vB, cB)
        projection == TimeProjection(vA, cA, vB, cB, duration)
    IN  IF InvalidCounts(vA, cA, vB, cB)
        THEN [ret |-> "null", convRateA |-> Null, convRateB |-> Null, uplift |-> Null,
              confidence |-> FxNull, isSignificant |-> FALSE, pValue |-> FxNull,
              additionalDaysNeeded |-> Null, projectedTotalDuration |-> Null]
        ELSE [ret |-> "record", convRateA |-> shared.convRateA, convRateB |-> shared.convRateB,
              uplift |-> shared.uplift, confidence |-> shared.confidence,
              isSignificant |-> shared.isSignificant, pValue |-> shared.pValue,
              additionalDaysNeeded |-> projection.additionalDaysNeeded,
              projectedTotalDuration |-> projection.projectedTotalDuration]

----------------------------------------------------------------------------
(* Mode 2: pre-test analysis *)

\* the candidate durations, weeks = 1 .. MaxWeeks
MaxWeeks == 6
\* a loop that tests i <= 100
IterationsInclusive == 100 + 1
\* iterations of the bisection, i < 100
Iterations == 100
\* the ceiling of the search, 500% MDE
HighMde == 5

\* preTestResults === null
NoTable == [ret |-> "null", rows |-> <<>>]
Table(rows) == [ret |-> "rows", rows |-> rows]

\* an exact number of level 0 as a fixed-point number
FxOfR(a) == FxOfFrac(a.n, a.d)

InvalidTraffic(traffic, conversions) ==
    \/ RLe(traffic, Zero)
    \/ RLt(conversions, Zero)
    \/ RGt(conversions, traffic)

\* the guard of the targets with the bounds 0 and 1 let through
InvalidTargetsStrict(conf, pow) ==
    \/ RLt(conf, Zero)
    \/ RLt(One, conf)
    \/ RLt(pow, Zero)
    \/ RLt(One, pow)

InvalidTargets(conf, pow) ==
    \/ RLe(conf, Zero)
    \/ RLe(One, conf)
    \/ RLe(pow, Zero)
    \/ RLe(One, pow)

\* MDE of one duration by the closed formula
ClosedFormMde(zAlpha, zBeta, baselineConvRate, traffic, weeks) ==
    LET totalTrafficPerVariation == RDiv(RMul(traffic, Int2R(weeks)), Int2R(2))
        radicand == RDiv(RMul(RMul(Int2R(2), baselineConvRate), RSub(One, baselineConvRate)),
                         totalTrafficPerVariation)
    IN  FxMul(FxDiv(zAlpha + zBeta, FxOfR(baselineConvRate)), FxSqrt(FxOfR(radicand)))

ClosedFormRows(zAlpha, zBeta, baselineConvRate, traffic) ==
    [weeks \in 1..MaxWeeks |->
        [weeks |-> weeks,
         mde |-> ClosedFormMde(zAlpha, zBeta, baselineConvRate, traffic, weeks)]]

\* PreTestAnalysis of the two-mode page: fixed Z-scores
PreTestAnalysis(fTraffic, fConversions) ==
    LET traffic == Number(fTraffic)
        conversions == Number(fConversions)
        baselineConvRate == RDiv(conversions, traffic)
        Z_ALPHA == FxOfFrac(196, 100)
        Z_BETA == FxOfFrac(84, 100)
    IN  IF InvalidTraffic(traffic, conversions) THEN NoTable
        ELSE IF baselineConvRate = Zero \/ baselineConvRate = One THEN Table(<<>>)
        ELSE Table(ClosedFormRows(Z_ALPHA, Z_BETA, baselineConvRate, traffic))

\* PreTestAnalysis with confidence and power fields: Z-scores from the inverse CDF
PreTestAnalysisDynamic(fTraffic, fConversions, fConfidence, fPower) ==
    LET traffic == Number(fTraffic)
        conversions == Number(fConversions)
        conf == RDiv(Number(fConfidence), Int2R(100))
        pow == RDiv(Number(fPower), Int2R(100))
        baselineConvRate == RDiv(conversions, traffic)
        alpha == RSub(One, conf)
        beta == RSub(One, pow)
        Z_ALPHA == standardNormalInverseCdf(FxOfR(RSub(One, RDiv(alpha, Int2R(2)))))
        Z_BETA == standardNormalInverseCdf(FxOfR(RSub(One, beta)))
    IN  IF InvalidTraffic(traffic, conversions) \/ InvalidTargets(conf, pow) THEN NoTable
        ELSE IF baselineConvRate = Zero \/ baselineConvRate = One THEN Table(<<>>)
        ELSE Table(ClosedFormRows(Z_ALPHA, Z_BETA, baselineConvRate, traffic))

\* Infinity, and every value beyond the fixed-point range
FxInfinity == FxMax

calculateRequiredN(mde, p1, zAlpha, zBeta) ==
    LET p2 == FxMul(p1, FxOne + mde)
        term1 == FxMul(p1, FxOne - p1)
        term2 == FxMul(p2, FxOne - p2)
        variance == term1 + term2
        effectSizeSq == FxPow(p2 - p1, 2)
    IN  IF mde <= 0 THEN FxInfinity
        ELSE IF p2 > FxOne THEN FxInfinity
        ELSE IF effectSizeSq = 0 THEN FxInfinity
        ELSE FxDiv(FxMul(FxPow(zAlpha + zBeta, 2), variance), effectSizeSq)

\* an iteration that moves highMde when requiredN is above the sample size
\* and lowMde otherwise
BisectionStepSwapped(st, sampleSizePerVariation, p1, zAlpha, zBeta) ==
    LET midMde == FxHalf(st.lowMde + st.highMde)
    IN  IF st.broke THEN st
        ELSE IF midMde = 0 THEN [st EXCEPT !.broke = TRUE, !.i = st.i + 1]
        ELSE IF calculateRequiredN(midMde, p1, zAlpha, zBeta) > sampleSizePerVariation
        THEN [st EXCEPT !.highMde = midMde, !.i = st.i + 1]
        ELSE [st EXCEPT !.lowMde = midMde, !.i = st.i + 1]

\* one iteration of the loop body on the loop's variables; broke records the
\* break and i counts the iterations that were started
BisectionStep(st, sampleSizePerVariation, p1, zAlpha, zBeta) ==
    LET midMde == FxHalf(st.lowMde + st.highMde)
    IN  IF st.broke THEN st
        ELSE IF midMde = 0 THEN [st EXCEPT !.broke = TRUE, !.i = st.i + 1]
        ELSE IF calculateRequiredN(midMde, p1, zAlpha, zBeta) > sampleSizePerVariation
        THEN [st EXCEPT !.lowMde = midMde, !.i = st.i + 1]
        ELSE [st EXCEPT !.highMde = midMde, !.i = st.i + 1]

\* count iterations of the loop body, one after the other, up to a break
RECURSIVE Bisection(_, _, _, _, _, _)
Bisection(st, count, sampleSizePerVariation, p1, zAlpha, zBeta) ==
    IF count = 0 THEN st
    ELSE IF count = 1 THEN BisectionStep(st, sampleSizePerVariation, p1, zAlpha, zBeta)
    ELSE LET half == Bisection(st, count \div 2, sampleSizePerVariation, p1, zAlpha, zBeta)
         IN  IF half.broke THEN half
             ELSE Bisection(half, count - count \div 2, sampleSizePerVariation, p1, zAlpha, zBeta)

\* `${(mde * 100).toFixed(2)}%`: the percentage in hundredths
PercentString(mde) == [k |-> "pct", m |-> (mde * (100 * 100) + FxScale \div 2) \div FxScale]
NotAvailable == [k |-> "N/A", m |-> 0]

\* `${weeks} week${weeks > 1 ? 's' : ''}`
WeeksString(weeks) == [n |-> weeks, unit |-> IF weeks > 1 THEN "weeks" ELSE "week"]

\* a row searched against the whole traffic of the duration, not half of it
BisectionRowWholeTraffic(weeks, traffic, p1, zAlpha, zBeta) ==
    LET sampleSize == RMul(traffic, Int2R(weeks))
        start == [lowMde |-> 0, highMde |-> HighMde * FxScale, broke |-> FALSE, i |-> 0]
        highMde == Bisection(start, Iterations, FxOfR(sampleSize), p1, zAlpha, zBeta).highMde
    IN  [weeks |-> WeeksString(weeks),
         mde |-> IF highMde < HighMde * FxScale THEN PercentString(highMde) ELSE NotAvailable]

BisectionRow(weeks, traffic, p1, zAlpha, zBeta) ==
    LET durationInDays == Int2R(weeks * 7)
        dailyTraffic == RDiv(traffic, Int2R(7))
        sampleSizePerVariation == RDiv(RMul(dailyTraffic, durationInDays), Int2R(2))
        start == [lowMde |-> 0, highMde |-> HighMde * FxScale, broke |-> FALSE, i |-> 0]
        highMde == Bisection(start, Iterations, FxOfR(sampleSizePerVariation),
                             p1, zAlpha, zBeta).highMde
    IN  [weeks |-> WeeksString(weeks),
         mde |-> IF highMde < HighMde * FxScale THEN PercentString(highMde) ELSE NotAvailable]

\* PreTestAnalysis of the page with persisted, shareable fields: bisection
PreTestAnalysisBisection(fTraffic, fConversions, fConfidence, fPower) ==
    LET traffic == Number(fTraffic)
        conversions == Number(fConversions)
        conf == RDiv(Number(fConfidence), Int2R(100))
        pow == RDiv(Number(fPower), Int2R(100))
        baselineConvRate == RDiv(conversions, traffic)
        alpha == RSub(One, conf)
        beta == RSub(One, pow)
        Z_ALPHA == standardNormalInverseCdf(FxOfR(RSub(One, RDiv(alpha, Int2R(2)))))
        Z_BETA == standardNormalInverseCdf(FxOfR(RSub(One, beta)))
    IN  IF InvalidTraffic(traffic, conversions) \/ InvalidTargets(conf, pow) THEN NoTable
        ELSE IF baselineConvRate = Zero \/ baselineConvRate = One THEN NoTable
        ELSE Table([weeks \in 1..MaxWeeks |->
                       BisectionRow(weeks, traffic, FxOfR(baselineConvRate), Z_ALPHA, Z_BETA)])

----------------------------------------------------------------------------
(* The page: the form fields of the mounted component.  TestAnalysis and   *)
(* PreTestAnalysis keep their fields in useState, so the component that a  *)
(* mode switch mounts starts from the initial values.                      *)

Modes == {"test-analysis", "pre-test-analysis"}

\* what can be typed into the fields
TestValues == {Empty, Huge} \cup {Int2R(i) : i \in -1..MaxCount}
DurationValues == {Empty, Int2R(7)}
TrafficValues == {Empty} \cup {Int2R(i) : i \in -1..MaxTraffic}
ConfidenceValues == {Empty, Int2R(50), Int2R(95), Int2R(100)}
PowerValues == {Empty, Int2R(20), Int2R(80), Int2R(100)}

InitialFields ==
    /\ visitorsA = Empty
    /\ conversionsA = Empty
    /\ visitorsB = Empty
    /\ conversionsB = Empty
    /\ testDuration = Empty
    /\ weeklyTraffic = Empty
    /\ weeklyConversions = Empty
    /\ confidence = Int2R(95)
    /\ power = Int2R(80)

\* no utility function called yet
NoCall == [fn |-> "none", arg |-> 0, out |-> 0, log |-> {}]

\* String(value): the text of a field value
String(v) == [text |-> v]
\* params.get(name) of a parameter that the query does not have: null
NoParam == [text |-> Null]
\* a query without parameters
NoQuery ==
    [mode |-> "", visitorsA |-> NoParam, conversionsA |-> NoParam, visitorsB |-> NoParam,
     conversionsB |-> NoParam, testDuration |-> NoParam, weeklyTraffic |-> NoParam,
     weeklyConversions |-> NoParam, confidence |-> NoParam, power |-> NoParam]

\* params.get(name) || fallback: null and '' are falsy, every other text is kept
ParamOr(value, fallback) ==
    IF value.text.k \in {"null", "empty"} THEN fallback ELSE value.text

\* the mode and the fields, as one record
Fields ==
    [mode |-> mode, visitorsA |-> visitorsA, conversionsA |-> conversionsA,
     visitorsB |-> visitorsB, conversionsB |-> conversionsB, testDuration |-> testDuration,
     weeklyTraffic |-> weeklyTraffic, weeklyConversions |-> weeklyConversions,
     confidence |-> confidence, power |-> power]

\* the keys of useLocalStorage
StorageKeys ==
    {"calculator_mode", "testAnalysis_visitorsA", "testAnalysis_conversionsA",
     "testAnalysis_visitorsB", "testAnalysis_conversionsB", "testAnalysis_testDuration",
     "preTestAnalysis_weeklyTraffic", "preTestAnalysis_weeklyConversions",
     "preTestAnalysis_confidence", "preTestAnalysis_power"}

\* a localStorage without items
NoItems == [key \in {} |-> NoParam]

\* the state that useLocalStorage keeps under the key
FieldOfKey(f, key) ==
    CASE key = "calculator_mode" -> f.mode
      [] key = "testAnalysis_visitorsA" -> f.visitorsA
      [] key = "testAnalysis_conversionsA" -> f.conversionsA
      [] key = "testAnalysis_visitorsB" -> f.visitorsB
      [] key = "testAnalysis_conversionsB" -> f.conversionsB
      [] key = "testAnalysis_testDuration" -> f.testDuration
      [] key = "preTestAnalysis_weeklyTraffic" -> f.weeklyTraffic
      [] key = "preTestAnalysis_weeklyConversions" -> f.weeklyConversions
      [] key = "preTestAnalysis_confidence" -> f.confidence
      [] key = "preTestAnalysis_power" -> f.power

\* the initialValue arguments of useLocalStorage
InitialValues ==
    [mode |-> "test-analysis", visitorsA |-> Empty, conversionsA |-> Empty,
     visitorsB |-> Empty, conversionsB |-> Empty, testDuration |-> Empty,
     weeklyTraffic |-> Empty, weeklyConversions |-> Empty,
     confidence |-> Int2R(95), power |-> Int2R(80)]

\* JSON.stringify and JSON.parse of a mode or a field value: the JSON text
\* of a value is never the empty text
JSONstringify(value) == [json |-> value]
JSONparse(item) == item.json

\* the keys whose storedValue differs between two renders
ChangedKeys(before, after) ==
    {key \in StorageKeys : FieldOfKey(before, key) # FieldOfKey(after, key)}

\* useEffect of useLocalStorage for the hooks of the keys: setItem
Persisted(store, keys, f) ==
    [key \in (DOMAIN store) \cup keys |->
        IF key \in keys THEN JSONstringify(FieldOfKey(f, key)) ELSE store[key]]

\* an initialiser that also takes the stored text "" for a missing item
StoredOrNotEmpty(store, key, initialValue) ==
    IF key \in DOMAIN store /\ (key = "calculator_mode" \/ JSONparse(store[key]) # Empty)
    THEN JSONparse(store[key])
    ELSE initialValue

\* the initialiser of useState in useLocalStorage: item ? JSON.parse(item) : initialValue
StoredOr(store, key, initialValue) ==
    IF key \in DOMAIN store THEN JSONparse(store[key]) ELSE initialValue

\* the mode and the fields that the hooks start with
Restored(store) ==
    [mode |-> StoredOr(store, "calculator_mode", InitialValues.mode),
     visitorsA |-> StoredOr(store, "testAnalysis_visitorsA", InitialValues.visitorsA),
     conversionsA |-> StoredOr(store, "testAnalysis_conversionsA", InitialValues.conversionsA),
     visitorsB |-> StoredOr(store, "testAnalysis_visitorsB", InitialValues.visitorsB),
     conversionsB |-> StoredOr(store, "testAnalysis_conversionsB", InitialValues.conversionsB),
     testDuration |-> StoredOr(store, "testAnalysis_testDuration", InitialValues.testDuration),
     weeklyTraffic |-> StoredOr(store, "preTestAnalysis_weeklyTraffic",
                                InitialValues.weeklyTraffic),
     weeklyConversions |-> StoredOr(store, "preTestAnalysis_weeklyConversions",
                                    InitialValues.weeklyConversions),
     confidence |-> StoredOr(store, "preTestAnalysis_confidence", InitialValues.confidence),
     power |-> StoredOr(store, "preTestAnalysis_power", InitialValues.power)]

\* the dependency list of useMemo in TestAnalysis without testDuration
ResultsDepsWithoutDuration(f) ==
    <<f.visitorsA, f.conversionsA, f.visitorsB, f.conversionsB>>

\* the dependency list of useMemo in TestAnalysis
ResultsDeps(f) ==
    <<f.visitorsA, f.conversionsA, f.visitorsB, f.conversionsB, f.testDuration>>

\* the dependency list of useMemo in PreTestAnalysis
PreTestResultsDeps(f) == <<f.weeklyTraffic, f.weeklyConversions, f.confidence, f.power>>

\* the dependency list of the component that the mode mounts
MemoDeps(f) == IF f.mode = "test-analysis" THEN ResultsDeps(f) ELSE PreTestResultsDeps(f)

\* the fields that the callback of useMemo reads in the component that the
\* mode mounts
CallbackInputs(f) ==
    IF f.mode = "test-analysis"
    THEN <<f.visitorsA, f.conversionsA, f.visitorsB, f.conversionsB, f.testDuration>>
    ELSE <<f.weeklyTraffic, f.weeklyConversions, f.confidence, f.power>>

\* the callback of useMemo of a component, run with the inputs
Computed(component, inputs) ==
    IF component = "test-analysis"
    THEN TestAnalysisDuration(inputs[1], inputs[2], inputs[3], inputs[4], inputs[5])
    ELSE PreTestAnalysisBisection(inputs[1], inputs[2], inputs[3], inputs[4])

\* useMemo in the first render of a component: the cell keeps the dependencies
\* and the value of the callback, which is held as the inputs that the
\* callback ran with
Rendered(f) == [component |-> f.mode, deps |-> MemoDeps(f), inputs |-> CallbackInputs(f)]

\* useMemo in a render with the cell of the render before: the callback runs
\* when the component was mounted by this render or a dependency changed
Rerendered(cell, f) ==
    IF cell.component = f.mode /\ cell.deps = MemoDeps(f) THEN cell ELSE Rendered(f)

Init ==
    /\ mode = "test-analysis"
    /\ InitialFields
    /\ call = NoCall
    /\ localStorage = Persisted(NoItems, StorageKeys, Fields)
    /\ memo = Rendered(Fields)
    /\ shareUrl = NoQuery
    /\ searchParams = NoQuery

\* onClick of the two toggle buttons
setMode(m) ==
    /\ mode' = m
    /\ UNCHANGED <<call, browserVars>>
    /\ IF m = mode
       THEN UNCHANGED <<testVars, preTestVars>>
       ELSE /\ visitorsA' = Empty
            /\ conversionsA' = Empty
            /\ visitorsB' = Empty
            /\ conversionsB' = Empty
            /\ testDuration' = Empty
            /\ weeklyTraffic' = Empty
            /\ weeklyConversions' = Empty
            /\ confidence' = Int2R(95)
            /\ power' = Int2R(80)

\* onChange of the inputs of TestAnalysis
setVisitorsA(v) ==
    /\ mode = "test-analysis"
    /\ visitorsA' = v
    /\ UNCHANGED <<mode, conversionsA, visitorsB, conversionsB, testDuration, preTestVars, call, browserVars>>

setConversionsA(v) ==
    /\ mode = "test-analysis"
    /\ conversionsA' = v
    /\ UNCHANGED <<mode, visitorsA, visitorsB, conversionsB, testDuration, preTestVars, call, browserVars>>

setVisitorsB(v) ==
    /\ mode = "test-analysis"
    /\ visitorsB' = v
    /\ UNCHANGED <<mode, visitorsA, conversionsA, conversionsB, testDuration, preTestVars, call, browserVars>>

setConversionsB(v) ==
    /\ mode = "test-analysis"
    /\ conversionsB' = v
    /\ UNCHANGED <<mode, visitorsA, conversionsA, visitorsB, testDuration, preTestVars, call, browserVars>>

setTestDuration(v) ==
    /\ mode = "test-analysis"
    /\ testDuration' = v
    /\ UNCHANGED <<mode, visitorsA, conversionsA, visitorsB, conversionsB, preTestVars, call, browserVars>>

\* onChange of the inputs of PreTestAnalysis
setWeeklyTraffic(v) ==
    /\ mode = "pre-test-analysis"
    /\ weeklyTraffic' = v
    /\ UNCHANGED <<mode, testVars, weeklyConversions, confidence, power, call, browserVars>>

setWeeklyConversions(v) ==
    /\ mode = "pre-test-analysis"
    /\ weeklyConversions' = v
    /\ UNCHANGED <<mode, testVars, weeklyTraffic, confidence, power, call, browserVars>>

setConfidence(v) ==
    /\ mode = "pre-test-analysis"
    /\ confidence' = v
    /\ UNCHANGED <<mode, testVars, weeklyTraffic, weeklyConversions, power, call, browserVars>>

setPower(v) ==
    /\ mode = "pre-test-analysis"
    /\ power' = v
    /\ UNCHANGED <<mode, testVars, weeklyTraffic, weeklyConversions, confidence, call, browserVars>>

Next ==
    \/ \E m \in Modes : setMode(m)
    \/ \E v \in TestValues : setVisitorsA(v)
    \/ \E v \in TestValues : setConversionsA(v)
    \/ \E v \in TestValues : setVisitorsB(v)
    \/ \E v \in TestValues : setConversionsB(v)
    \/ \E v \in DurationValues : setTestDuration(v)
    \/ \E v \in TrafficValues : setWeeklyTraffic(v)
    \/ \E v \in TrafficValues : setWeeklyConversions(v)
    \/ \E v \in ConfidenceValues : setConfidence(v)
    \/ \E v \in PowerValues : setPower(v)

Spec == Init /\ [][Next]_vars

----------------------------------------------------------------------------
(* Shared links: the page with persisted, shareable fields reads the mode  *)
(* and the fields of that mode from the parameters of its URL.  A field is *)
(* identified with the text that its input shows; a query is a record of   *)
(* the texts of its parameters.                                            *)

\* the setters called with the values of the record f
SetFields(f) ==
    /\ mode' = f.mode
    /\ visitorsA' = f.visitorsA
    /\ conversionsA' = f.conversionsA
    /\ visitorsB' = f.visitorsB
    /\ conversionsB' = f.conversionsB
    /\ testDuration' = f.testDuration
    /\ weeklyTraffic' = f.weeklyTraffic
    /\ weeklyConversions' = f.weeklyConversions
    /\ confidence' = f.confidence
    /\ power' = f.power

\* a URL load that also sets the fields of the other mode to their initial values
UrlLoadedResetting(params, f) ==
    IF params.mode = "test-analysis"
    THEN [mode |-> params.mode,
          visitorsA |-> ParamOr(params.visitorsA, Empty),
          conversionsA |-> ParamOr(params.conversionsA, Empty),
          visitorsB |-> ParamOr(params.visitorsB, Empty),
          conversionsB |-> ParamOr(params.conversionsB, Empty),
          testDuration |-> ParamOr(params.testDuration, Empty),
          weeklyTraffic |-> Empty, weeklyConversions |-> Empty,
          confidence |-> Int2R(95), power |-> Int2R(80)]
    ELSE IF params.mode = "pre-test-analysis"
    THEN [mode |-> params.mode,
          visitorsA |-> Empty, conversionsA |-> Empty, visitorsB |-> Empty,
          conversionsB |-> Empty, testDuration |-> Empty,
          weeklyTraffic |-> ParamOr(params.weeklyTraffic, Empty),
          weeklyConversions |-> ParamOr(params.weeklyConversions, Empty),
          confidence |-> ParamOr(params.confidence, Int2R(95)),
          power |-> ParamOr(params.power, Int2R(80))]
    ELSE f

\* useEffect on searchParams: the mode and the fields after the effect, from
\* the query and the mode and fields f before it
UrlLoaded(params, f) ==
    IF params.mode = "test-analysis"
    THEN [f EXCEPT !.mode = params.mode,
                   !.visitorsA = ParamOr(params.visitorsA, Empty),
                   !.conversionsA = ParamOr(params.conversionsA, Empty),
                   !.visitorsB = ParamOr(params.visitorsB, Empty),
                   !.conversionsB = ParamOr(params.conversionsB, Empty),
                   !.testDuration = ParamOr(params.testDuration, Empty)]
    ELSE IF params.mode = "pre-test-analysis"
    THEN [f EXCEPT !.mode = params.mode,
                   !.weeklyTraffic = ParamOr(params.weeklyTraffic, Empty),
                   !.weeklyConversions = ParamOr(params.weeklyConversions, Empty),
                   !.confidence = ParamOr(params.confidence, Int2R(95)),
                   !.power = ParamOr(params.power, Int2R(80))]
    ELSE f

\* the page's URL changes to the query params: useEffect on searchParams
openSharedUrl(params) ==
    /\ searchParams' = params
    /\ SetFields(UrlLoaded(params, Fields))
    /\ memo' = Rerendered(memo, Fields')
    /\ localStorage' = Persisted(localStorage, ChangedKeys(Fields, Fields'), Fields')
    /\ UNCHANGED <<call, shareUrl>>

\* links to experiments of 10000 visitors per arm, links to plans, and links
\* without a mode or with a mode that the page does not have
SharedLinks ==
    {[NoQuery EXCEPT !.mode = "test-analysis",
                     !.visitorsA = String(Int2R(10000)),
                     !.conversionsA = String(Int2R(50 * i)),
                     !.visitorsB = String(Int2R(10000)),
                     !.conversionsB = String(Int2R(50 * j)),
                     !.testDuration = String(d)] :
         i \in {8, 10, 13}, j \in {8, 10, 13}, d \in DurationValues}
    \cup
    {[NoQuery EXCEPT !.mode = "pre-test-analysis",
                     !.weeklyTraffic = String(t),
                     !.weeklyConversions = String(Int2R(1)),
                     !.confidence = String(c)] : t \in {Int2R(2), Int2R(4)}, c \in {Empty, Int2R(50)}}
    \cup
    {[NoQuery EXCEPT !.mode = m,
                     !.visitorsA = String(Int2R(10000)),
                     !.weeklyTraffic = String(Int2R(4))] : m \in {"", "results"}}

NextShared == \E params \in SharedLinks : openSharedUrl(params)

SpecShared == Init /\ [][NextShared]_vars

----------------------------------------------------------------------------
(* The page with persisted, shareable fields: CalculatorPage keeps the     *)
(* mode and the fields in useLocalStorage and hands them to the component  *)
(* of the mode, which computes its results in useMemo.  Every setter ends  *)
(* in a render of the mounted component and in the effects of the hooks    *)
(* whose value changed.                                                    *)

\* the render and the effects that follow the setters of a step
Commit ==
    /\ memo' = Rerendered(memo, Fields')
    /\ localStorage' = Persisted(localStorage, ChangedKeys(Fields, Fields'), Fields')

\* onClick of the two toggle buttons: the fields stay
setModeStored(m) ==
    /\ mode' = m
    /\ UNCHANGED <<testVars, preTestVars, call, shareUrl, searchParams>>
    /\ Commit

\* onChange of the inputs of TestAnalysis
setVisitorsAStored(v) ==
    /\ mode = "test-analysis"
    /\ visitorsA' = v
    /\ UNCHANGED <<mode, conversionsA, visitorsB, conversionsB, testDuration, preTestVars>>
    /\ UNCHANGED <<call, shareUrl, searchParams>>
    /\ Commit

setConversionsAStored(v) ==
    /\ mode = "test-analysis"
    /\ conversionsA' = v
    /\ UNCHANGED <<mode, visitorsA, visitorsB, conversionsB, testDuration, preTestVars>>
    /\ UNCHANGED <<call, shareUrl, searchParams>>
    /\ Commit

setVisitorsBStored(v) ==
    /\ mode = "test-analysis"
    /\ visitorsB' = v
    /\ UNCHANGED <<mode, visitorsA, conversionsA, conversionsB, testDuration, preTestVars>>
    /\ UNCHANGED <<call, shareUrl, searchParams>>
    /\ Commit

setConversionsBStored(v) ==
    /\ mode = "test-analysis"
    /\ conversionsB' = v
    /\ UNCHANGED <<mode, visitorsA, conversionsA, visitorsB, testDuration, preTestVars>>
    /\ UNCHANGED <<call, shareUrl, searchParams>>
    /\ Commit

setTestDurationStored(v) ==
    /\ mode = "test-analysis"
    /\ testDuration' = v
    /\ UNCHANGED <<mode, visitorsA, conversionsA, visitorsB, conversionsB, preTestVars>>
    /\ UNCHANGED <<call, shareUrl, searchParams>>
    /\ Commit

\* onChange of the inputs of PreTestAnalysis
setWeeklyTrafficStored(v) ==
    /\ mode = "pre-test-analysis"
    /\ weeklyTraffic' = v
    /\ UNCHANGED <<mode, testVars, weeklyConversions, confidence, power>>
    /\ UNCHANGED <<call, shareUrl, searchParams>>
    /\ Commit

setWeeklyConversionsStored(v) ==
    /\ mode = "pre-test-analysis"
    /\ weeklyConversions' = v
    /\ UNCHANGED <<mode, testVars, weeklyTraffic, confidence, power>>
    /\ UNCHANGED <<call, shareUrl, searchParams>>
    /\ Commit

setConfidenceStored(v) ==
    /\ mode = "pre-test-analysis"
    /\ confidence' = v
    /\ UNCHANGED <<mode, testVars, weeklyTraffic, weeklyConversions, power>>
    /\ UNCHANGED <<call, shareUrl, searchParams>>
    /\ Commit

setPowerStored(v) ==
    /\ mode = "pre-test-analysis"
    /\ power' = v
    /\ UNCHANGED <<mode, testVars, weeklyTraffic, weeklyConversions, confidence>>
    /\ UNCHANGED <<call, shareUrl, searchParams>>
    /\ Commit

\* the query that handleShare builds from the mode and the fields f
ShareQuery(f) ==
    IF f.mode = "test-analysis"
    THEN [NoQuery EXCEPT !.mode = f.mode,
                         !.visitorsA = String(f.visitorsA),
                         !.conversionsA = String(f.conversionsA),
                         !.visitorsB = String(f.visitorsB),
                         !.conversionsB = String(f.conversionsB),
                         !.testDuration = String(f.testDuration)]
    ELSE [NoQuery EXCEPT !.mode = f.mode,
                         !.weeklyTraffic = String(f.weeklyTraffic),
                         !.weeklyConversions = String(f.weeklyConversions),
                         !.confidence = String(f.confidence),
                         !.power = String(f.power)]

\* onClick of Share
handleShare ==
    /\ shareUrl' = ShareQuery(Fields)
    /\ UNCHANGED <<pageVars, call, localStorage, memo, searchParams>>

\* the page is loaded with the query params: the hooks start from
\* localStorage, the component of the stored mode renders, the effects of
\* all hooks run, and the effect on searchParams sets the mode and fields
loadPage(params) ==
    LET restored == Restored(localStorage)
        loaded == UrlLoaded(params, restored)
    IN  /\ SetFields(loaded)
        /\ memo' = Rerendered(Rendered(restored), loaded)
        /\ localStorage' = Persisted(Persisted(localStorage, StorageKeys, restored),
                                     ChangedKeys(restored, loaded), loaded)
        /\ shareUrl' = NoQuery
        /\ searchParams' = params
        /\ UNCHANGED call

\* the page is loaded again, without parameters in the URL
reload == loadPage(NoQuery)

\* the link that Share shows is opened
openShareUrl ==
    /\ shareUrl # NoQuery
    /\ loadPage(shareUrl)

\* what is typed into the fields of the page with persisted fields
StoredValues ==
    [visitorsA |-> {Empty, Int2R(2)}, visitorsB |-> {Empty, Int2R(3)},
     conversions |-> {Empty, Int2R(1)}, weeklyTraffic |-> {Empty, Int2R(4)},
     weeklyConversions |-> {Empty, Int2R(1)}, confidence |-> {Empty, Int2R(95)},
     power |-> {Empty, Int2R(80)}]

\* a link that the page with persisted fields is opened with
StoredLinks ==
    {[NoQuery EXCEPT !.mode = "pre-test-analysis", !.weeklyTraffic = String(Int2R(4))]}

NextStored ==
    \/ \E m \in Modes : setModeStored(m)
    \/ \E v \in StoredValues.visitorsA : setVisitorsAStored(v)
    \/ \E v \in StoredValues.conversions : setConversionsAStored(v)
    \/ \E v \in StoredValues.visitorsB : setVisitorsBStored(v)
    \/ \E v \in StoredValues.conversions : setConversionsBStored(v)
    \/ \E v \in DurationValues : setTestDurationStored(v)
    \/ \E v \in StoredValues.weeklyTraffic : setWeeklyTrafficStored(v)
    \/ \E v \in StoredValues.weeklyConversions : setWeeklyConversionsStored(v)
    \/ \E v \in StoredValues.confidence : setConfidenceStored(v)
    \/ \E v \in StoredValues.power : setPowerStored(v)
    \/ \E params \in StoredLinks : loadPage(params)
    \/ reload

SpecStored == Init /\ [][NextStored]_vars

\* sharing: some of the fields are edited, Share is pressed, the link is opened
NextShare ==
    \/ \E m \in Modes : setModeStored(m)
    \/ \E v \in StoredValues.visitorsA : setVisitorsAStored(v)
    \/ \E v \in DurationValues : setTestDurationStored(v)
    \/ \E v \in StoredValues.weeklyTraffic : setWeeklyTrafficStored(v)
    \/ \E v \in StoredValues.confidence : setConfidenceStored(v)
    \/ handleShare
    \/ openShareUrl

SpecShare == Init /\ [][NextShare]_vars

----------------------------------------------------------------------------
(* The utility functions on their own: calls of standardNormalCdf and      *)
(* standardNormalInverseCdf with arguments from a grid.                    *)

\* the largest |z| of the grid and the grid's points per unit
MaxZ == 4
PerUnit == 20
ZValues == {(k * FxScale) \div PerUnit : k \in (-(MaxZ * PerUnit))..(MaxZ * PerUnit)}
\* probabilities from -1/2 to 3/2
PValues == {(k * FxScale) \div PerUnit : k \in (-(PerUnit \div 2))..(PerUnit + PerUnit \div 2)}

CallCdf(z) ==
    /\ call' = [fn |-> "cdf", arg |-> z, out |-> standardNormalCdf(z), log |-> {}]
    /\ UNCHANGED <<pageVars, browserVars>>

CallInverseCdf(p) ==
    /\ call' = [fn |-> "inverseCdf", arg |-> p, out |-> standardNormalInverseCdf(p),
                log |-> InverseCdfLogArguments(p)]
    /\ UNCHANGED <<pageVars, browserVars>>

NextNormal ==
    \/ \E z \in ZValues : CallCdf(z)
    \/ \E p \in PValues : CallInverseCdf(p)

SpecNormal == Init /\ [][NextNormal]_vars

\* useMemo: the results that each revision of the page renders from the fields
results == TestAnalysis(visitorsA, conversionsA, visitorsB, conversionsB)
resultsCalculatorPage == CalculatorPage(visitorsA, conversionsA, visitorsB, conversionsB)
resultsDuration ==
    TestAnalysisDuration(visitorsA, conversionsA, visitorsB, conversionsB, testDuration)
preTestResults == PreTestAnalysis(weeklyTraffic, weeklyConversions)
preTestResultsDynamic ==
    PreTestAnalysisDynamic(weeklyTraffic, weeklyConversions, confidence, power)
preTestResultsBisection ==
    PreTestAnalysisBisection(weeklyTraffic, weeklyConversions, confidence, power)

AllResults == <<results, resultsCalculatorPage, resultsDuration>>

----------------------------------------------------------------------------
(* Properties of the significance analysis *)

\* the fields as numbers
NumVA == Number(visitorsA)
NumCA == Number(conversionsA)
NumVB == Number(visitorsB)
NumCB == Number(conversionsB)

\* the standard error of the counts in the fields is zero
ZeroStdError == stdError(NumVA, NumCA, NumVB, NumCB).m = 0

\* a nullable fixed-point field holds a number that is at least x
AtLeast(f, x) == f.k = "fx" /\ f.m >= x

\* the inputs that C1 lists as rejected
C1_Rejected ==
    \/ RLe(NumVA, Zero)
    \/ RLt(NumCA, Zero)
    \/ RLe(NumVB, Zero)
    \/ RLt(NumCB, Zero)
    \/ RLt(NumVA, NumCA)
    \/ RLt(NumVB, NumCB)

\* C1: every revision of the significance analysis returns null exactly when
\* visitorsA <= 0, conversionsA < 0, visitorsB <= 0, conversionsB < 0,
\* conversionsA > visitorsA or conversionsB > visitorsB, and a result record
\* for every other input.
C1_NullExactlyWhenInvalid ==
    \A i \in 1..3 : (AllResults[i].ret = "null") <=> C1_Rejected

\* C1 witness: counts rejected for conversionsB > visitorsB alone
C1_Witness ==
    /\ RGt(NumVA, Zero) /\ RLe(Zero, NumCA) /\ RLe(NumCA, NumVA)
    /\ RGt(NumVB, Zero) /\ RGt(NumCB, NumVB)
    /\ results.ret = "null"

C3_Uplift(r) ==
    IF RGt(r.convRateA, Zero) THEN RDiv(RSub(r.convRateB, r.convRateA), r.convRateA)
    ELSE IF RGt(r.convRateB, Zero) THEN Infinity
    ELSE Zero

\* C3: in every revision, uplift is (rateB - rateA) / rateA when rateA > 0,
\* +Infinity when rateA = 0 and rateB > 0, and 0 when both rates are 0.
C3_UpliftDefined ==
    \A i \in 1..3 :
        AllResults[i].ret = "record" => AllResults[i].uplift = C3_Uplift(AllResults[i])

\* the confidence that C4 states for the zero-standard-error branch
C4_Confidence(r) ==
    IF r.convRateA = r.convRateB THEN FxVal(FxOfFrac(1, 2))
    ELSE IF RGt(r.convRateB, r.convRateA) THEN FxVal(FxOne)
    ELSE FxVal(0)

ApproxTolerance == FxOfFrac(1, 100)

\* both arms hold the same counts and their rate is strictly between 0 and 1
IdenticalArms ==
    /\ NumVA = NumVB
    /\ NumCA = NumCB
    /\ RGt(NumVA, Zero)
    /\ RGt(NumCA, Zero)
    /\ RLt(NumCA, NumVA)

C6_ConfidenceIsOneMinusPValue ==
    \A i \in 1..3 :
        (AllResults[i].ret = "record" /\ AllResults[i].confidence.k = "fx"
            /\ AllResults[i].pValue.k = "fx") =>
            AllResults[i].confidence.m = FxOne - AllResults[i].pValue.m

\* an exact number in [0, 1]
InUnitInterval(a) == IsNum(a) /\ RLe(Zero, a) /\ RLe(a, One)
\* a nullable fixed-point number that is null or in [0, 1]
NullOrInUnitInterval(f) == f.k = "null" \/ (f.k = "fx" /\ 0 <= f.m /\ f.m <= FxOne)

----------------------------------------------------------------------------
(* Properties of the MDE planner *)

NumTraffic == Number(weeklyTraffic)
NumConversions == Number(weeklyConversions)
ConfTarget == RDiv(Number(confidence), Int2R(100))
PowerTarget == RDiv(Number(power), Int2R(100))

\* the traffic and conversions that C8 lists as rejected
C8_RejectedCounts ==
    \/ RLe(NumTraffic, Zero)
    \/ RLt(NumConversions, Zero)
    \/ RLt(NumTraffic, NumConversions)
    \/ NumConversions = Zero
    \/ NumConversions = NumTraffic

\* a target outside the open interval (0, 1)
C8_RejectedTargets ==
    \/ ~RLt(Zero, ConfTarget)
    \/ ~RLt(ConfTarget, One)
    \/ ~RLt(Zero, PowerTarget)
    \/ ~RLt(PowerTarget, One)

\* no table: null or an empty list
NoOutput(t) == t.ret = "null" \/ t.rows = <<>>
\* a table of MaxWeeks rows
IsTable(t) == t.ret = "rows" /\ Len(t.rows) = MaxWeeks

\* C8: each planner produces no table exactly when traffic <= 0,
\* conversions < 0, conversions > traffic, a target (where the planner takes
\* targets) is outside (0, 1) or the baseline rate is 0 or 1, and a table for
\* every other input.
C8_NoTableExactlyWhenInvalid ==
    /\ NoOutput(preTestResults) <=> C8_RejectedCounts
    /\ IsTable(preTestResults) <=> ~C8_RejectedCounts
    /\ NoOutput(preTestResultsDynamic) <=> (C8_RejectedCounts \/ C8_RejectedTargets)
    /\ IsTable(preTestResultsDynamic) <=> ~(C8_RejectedCounts \/ C8_RejectedTargets)
    /\ NoOutput(preTestResultsBisection) <=> (C8_RejectedCounts \/ C8_RejectedTargets)
    /\ IsTable(preTestResultsBisection) <=> ~(C8_RejectedCounts \/ C8_RejectedTargets)

\* C8 witness: counts that plan a table, refused for a confidence of 100%
C8_Witness ==
    /\ ~C8_RejectedCounts
    /\ ConfTarget = One
    /\ IsTable(preTestResults)
    /\ NoOutput(preTestResultsDynamic)
    /\ NoOutput(preTestResultsBisection)

\* the rows of a closed-form table never rise
ClosedFormNonIncreasing(t) ==
    IsTable(t) => \A w \in 1..(MaxWeeks - 1) : t.rows[w + 1].mde <= t.rows[w].mde

\* the rows of a bisection table never rise; "N/A" stands above every value
BisectionNonIncreasing(t) ==
    IsTable(t) =>
        \A w \in 1..(MaxWeeks - 1) :
            \/ t.rows[w].mde = NotAvailable
            \/ /\ t.rows[w + 1].mde # NotAvailable
               /\ t.rows[w + 1].mde.m <= t.rows[w].mde.m

\* C9: for every valid planning input and both algorithms, the MDE of weeks
\* k + 1 is never larger than the MDE of weeks k.
C9_MdeNonIncreasing ==
    /\ ClosedFormNonIncreasing(preTestResults)
    /\ ClosedFormNonIncreasing(preTestResultsDynamic)
    /\ BisectionNonIncreasing(preTestResultsBisection)

\* C10: for every valid planning input, every row carries an MDE >= 0 or
\* the "not found" marker.
C10_MdeNotNegative ==
    /\ IsTable(preTestResults) => \A w \in 1..MaxWeeks : preTestResults.rows[w].mde >= 0
    /\ IsTable(preTestResultsDynamic) =>
           \A w \in 1..MaxWeeks : preTestResultsDynamic.rows[w].mde >= 0
    /\ IsTable(preTestResultsBisection) =>
           \A w \in 1..MaxWeeks :
               \/ preTestResultsBisection.rows[w].mde = NotAvailable
               \/ preTestResultsBisection.rows[w].mde.m >= 0

\* the baseline rate and the Z-scores of the fields
BaselineRate == RDiv(NumConversions, NumTraffic)
ZAlphaOfFields ==
    standardNormalInverseCdf(FxOfR(RSub(One, RDiv(RSub(One, ConfTarget), Int2R(2)))))
ZBetaOfFields == standardNormalInverseCdf(FxOfR(PowerTarget))
\* n = traffic * weeks / 2
SampleSize(weeks) == RDiv(RMul(NumTraffic, Int2R(weeks)), Int2R(2))

\* the closed-form MDE for the sample size n
ClosedFormAt(zSum, n) ==
    FxMul(FxDiv(zSum, FxOfR(BaselineRate)),
          FxSqrt(FxOfR(RDiv(RMul(RMul(Int2R(2), BaselineRate), RSub(One, BaselineRate)), n))))

\* the end of the bisection for the sample size n
BisectionAt(n) ==
    Bisection([lowMde |-> 0, highMde |-> HighMde * FxScale, broke |-> FALSE, i |-> 0], Iterations,
              FxOfR(n), FxOfR(BaselineRate), ZAlphaOfFields, ZBetaOfFields)

\* the MDE that a bisection row shows for the sample size n
BisectionMdeAt(n) ==
    IF BisectionAt(n).highMde < HighMde * FxScale
    THEN PercentString(BisectionAt(n).highMde)
    ELSE NotAvailable

\* C12: every table has exactly six rows, for the week counts 1, 2, ..., 6
\* in this order, and the row of weeks is computed with the sample size
\* n = traffic * weeks / 2.
C12_SixRowsInOrder ==
    /\ IsTable(preTestResults) =>
          /\ Len(preTestResults.rows) = 6
          /\ \A w \in 1..6 :
                /\ preTestResults.rows[w].weeks = w
                /\ preTestResults.rows[w].mde
                       = ClosedFormAt(FxOfFrac(196, 100) + FxOfFrac(84, 100), SampleSize(w))
    /\ IsTable(preTestResultsDynamic) =>
          /\ Len(preTestResultsDynamic.rows) = 6
          /\ \A w \in 1..6 :
                /\ preTestResultsDynamic.rows[w].weeks = w
                /\ preTestResultsDynamic.rows[w].mde
                       = ClosedFormAt(ZAlphaOfFields + ZBetaOfFields, SampleSize(w))
    /\ IsTable(preTestResultsBisection) =>
          /\ Len(preTestResultsBisection.rows) = 6
          /\ \A w \in 1..6 :
                /\ preTestResultsBisection.rows[w].weeks.n = w
                /\ preTestResultsBisection.rows[w].mde = BisectionMdeAt(SampleSize(w))

\* C12 witness: a bisection table whose rows of one week and of six weeks differ
C12_Witness ==
    /\ IsTable(preTestResultsBisection)
    /\ IsTable(preTestResults)
    /\ preTestResultsBisection.rows[6].mde # NotAvailable
    /\ preTestResultsBisection.rows[1].mde # preTestResultsBisection.rows[6].mde

\* candidate uplifts in (0, 5), one every 0.05
GridStep == FxOfFrac(5, 100)
MdeGrid == {GridStep * k : k \in 1..((HighMde * FxScale) \div GridStep - 1)}

\* requiredN(mde) <= n for the baseline rate and the targets of the fields
Detectable(mde, n) ==
    calculateRequiredN(mde, FxOfR(BaselineRate), ZAlphaOfFields, ZBetaOfFields) <= FxOfR(n)

\* C11: in the bisection planner, a row whose sample size n makes some uplift
\* in (0, 5) detectable (requiredN(mde) <= n) reports a found value, which is
\* the smallest such uplift up to the search precision; "N/A" is reported only
\* when no uplift below the ceiling is detectable.
C11_BisectionFindsSmallest ==
    IsTable(preTestResultsBisection) =>
        \A w \in 1..MaxWeeks :
            LET n == SampleSize(w)
                found == BisectionAt(n).highMde
                row == preTestResultsBisection.rows[w]
            IN  /\ (\E m \in MdeGrid : Detectable(m, n)) =>
                      /\ row.mde # NotAvailable
                      /\ Detectable(found, n)
                      /\ \A m \in MdeGrid : m < found - GridStep
                                               => ~Detectable(m, n)
                /\ row.mde = NotAvailable => \A m \in MdeGrid : ~Detectable(m, n)

----------------------------------------------------------------------------
(* Properties of the time projection *)

NumDuration == Number(testDuration)

\* the projection is computed for the counts and the duration in the fields
ProjectionComputed ==
    /\ resultsDuration.ret = "record"
    /\ RGt(NumDuration, Zero)
    /\ RGt(resultsDuration.convRateA, Zero) /\ RLt(resultsDuration.convRateA, One)
    /\ RGt(resultsDuration.convRateB, Zero) /\ RLt(resultsDuration.convRateB, One)
    /\ resultsDuration.convRateA # resultsDuration.convRateB

\* requiredDays of the fields: the days that twice the required sample
\* takes at the observed visitors per day
RequiredDays ==
    LCeil(LDivR(LDouble(requiredNPerVariation(NumVA, NumCA, NumVB, NumCB)),
                RDiv(RAdd(NumVA, NumVB), NumDuration)))

\* a <= b for a finite a and a b that is finite or +Infinity
RLeOrInfinite(a, b) == b.k = "inf" \/ (IsNum(b) /\ RLe(a, b))

\* the larger of two exact numbers, the first finite
RMax(a, b) == IF ~IsNum(b) THEN b ELSE IF RLt(a, b) THEN b ELSE a

\* C13: whenever the projection is computed, additionalDaysNeeded is
\* max(0, requiredDays - elapsedDays) and projectedTotalDuration is
\* elapsedDays + additionalDaysNeeded, so additionalDaysNeeded >= 0 and
\* projectedTotalDuration = max(elapsedDays, requiredDays) >= elapsedDays.
C13_ProjectionIsClampedDifference ==
    ProjectionComputed =>
        LET additional == resultsDuration.additionalDaysNeeded
            projected == resultsDuration.projectedTotalDuration
        IN  /\ additional.k \in {"num", "inf"}
            /\ additional = (IF IsNum(RequiredDays)
                             THEN RMax(Zero, RSub(RequiredDays, NumDuration))
                             ELSE RequiredDays)
            /\ projected = (IF IsNum(additional) THEN RAdd(NumDuration, additional)
                            ELSE additional)
            /\ RLeOrInfinite(Zero, additional)
            /\ projected = RMax(NumDuration, RequiredDays)
            /\ RLeOrInfinite(NumDuration, projected)

\* C13 witness: a projection whose required days are already over
C13_Witness ==
    /\ ProjectionComputed
    /\ IsNum(RequiredDays)
    /\ RLt(RequiredDays, NumDuration)
    /\ resultsDuration.additionalDaysNeeded = Zero
    /\ resultsDuration.projectedTotalDuration = NumDuration

\* the six fields of a result that every revision returns
SixFields(r) ==
    <<r.ret, r.convRateA, r.convRateB, r.uplift, r.pValue, r.confidence, r.isSignificant>>

\* C14: for every valid input, additionalDaysNeeded and projectedTotalDuration
\* are numbers exactly when the duration is > 0, both rates are strictly
\* inside (0, 1) and the rates are unequal, and both null otherwise; 'N/A' is
\* never produced and the six other fields do not depend on the duration.
C14_ProjectionExactlyWhenApplicable ==
    resultsDuration.ret = "record" =>
        /\ ProjectionComputed =>
              /\ resultsDuration.additionalDaysNeeded.k \in {"num", "inf"}
              /\ resultsDuration.projectedTotalDuration.k \in {"num", "inf"}
        /\ ~ProjectionComputed =>
              /\ resultsDuration.additionalDaysNeeded = Null
              /\ resultsDuration.projectedTotalDuration = Null
        /\ resultsDuration.additionalDaysNeeded # NotApplicable
        /\ resultsDuration.projectedTotalDuration # NotApplicable
        /\ \A d \in DurationValues :
              SixFields(TestAnalysisDuration(visitorsA, conversionsA, visitorsB,
                                             conversionsB, d))
                  = SixFields(resultsDuration)

\* C14 witness: a duration and unequal rates inside (0, 1) with days still needed
C14_Witness ==
    /\ ProjectionComputed
    /\ IsNum(resultsDuration.additionalDaysNeeded)
    /\ RGt(resultsDuration.additionalDaysNeeded, Zero)
    /\ RGt(resultsDuration.projectedTotalDuration, NumDuration)

----------------------------------------------------------------------------
(* Properties of the utility functions, over the calls of SpecNormal *)

\* C15: inverseCdf(p) returns 0 for every p <= 0 and every p >= 1, and no
\* call passes Math.log an argument outside (0, 1], so that the square root
\* is taken of -2 ln x >= 0 only.
C15_SentinelOutsideDomain ==
    call.fn = "inverseCdf" =>
        /\ (call.arg <= 0 \/ call.arg >= FxOne) => (call.out = 0 /\ call.log = {})
        /\ \A x \in call.log : 0 < x /\ x <= FxOne

\* C15 witness: the call inverseCdf(1)
C15_Witness ==
    /\ call.fn = "inverseCdf"
    /\ call.arg = FxOne
    /\ call.out = 0

\* Phi(z), the standard normal CDF, at whole z (to four decimals)
PhiTable ==
    [z \in {-2 * FxScale, -FxScale, 0, FxScale, 2 * FxScale} |->
        IF z = -2 * FxScale THEN FxOfFrac(228, 10000)
        ELSE IF z = -FxScale THEN FxOfFrac(1587, 10000)
        ELSE IF z = 0 THEN FxOfFrac(5000, 10000)
        ELSE IF z = FxScale THEN FxOfFrac(8413, 10000)
        ELSE FxOfFrac(9772, 10000)]

\* the error allowed to a fixed-point value that the code computes to 1e-7
FxSlack == FxOfFrac(5, 10000)

\* C16: cdf(z) is within about 1.5e-7 of Phi(z); here at z = -2, -1, 0, 1, 2
\* and to the four decimals of the fixed-point numbers.
C16_CdfApproximatesPhi ==
    (call.fn = "cdf" /\ call.arg \in DOMAIN PhiTable) =>
        Abs(call.out - PhiTable[call.arg]) <= FxSlack

\* the |z| up to which cdf(z) keeps three digits of 1 - cdf(z) in fixed point
RoundTripZ == 2 * FxScale
\* the error of inverseCdf(cdf(z)) that four decimals of cdf(z) can cause
RoundTripSlack == FxOfFrac(5, 100)

\* C17: inverseCdf(cdf(z)) equals z within a relative tolerance of 1e-3, for
\* negative and positive z; here for |z| <= 2.
C17_InverseCdfOfCdf ==
    (call.fn = "cdf" /\ Abs(call.arg) <= RoundTripZ) =>
        Abs(standardNormalInverseCdf(call.out) - call.arg)
            <= Abs(call.arg) \div 1000 + RoundTripSlack

\* one unit of rounding for each of two fixed-point values
RoundingSlack == FxOfFrac(2, 10000)

\* C18: cdf(-z) = 1 - cdf(z) up to the rounding of the last digit, and
\* cdf(0) = 0.5 up to rounding.
C18_CdfSymmetric ==
    call.fn = "cdf" =>
        /\ Abs(standardNormalCdf(-call.arg) - (FxOne - call.out)) <= RoundingSlack
        /\ call.arg = 0 => Abs(call.out - FxOfFrac(1, 2)) <= RoundingSlack

\* C18 witness: a call with z < 0 that returns a value strictly inside (0, 1/2)
C18_Witness ==
    /\ call.fn = "cdf"
    /\ call.arg < 0
    /\ 0 < call.out
    /\ call.out < FxOfFrac(1, 2)
    /\ standardNormalCdf(-call.arg) > FxOfFrac(1, 2)

----------------------------------------------------------------------------
(* A clearly significant lift *)

\* |zScore| of the counts in the fields, for a valid input with a standard
\* error that is not zero
AbsZScore ==
    Abs(FxSignedOf(RDivFx(RSub(RDiv(NumCB, NumVB), RDiv(NumCA, NumVA)),
                          stdError(NumVA, NumCA, NumVB, NumCB))))

\* the fields hold 10000 / 500 against 10000 / 650
SignificantLiftExample ==
    /\ NumVA = Int2R(10000) /\ NumCA = Int2R(500)
    /\ NumVB = Int2R(10000) /\ NumCB = Int2R(650)

C20_RevisionsAgree ==
    resultsDuration.ret = "record" =>
        /\ SixFields(results) = SixFields(resultsDuration)
        /\ SixFields(resultsCalculatorPage) = SixFields(resultsDuration)

\* an input that the bisection planner accepts
ValidPlan == ~(C8_RejectedCounts \/ C8_RejectedTargets)

\* the iterations that the search for the row of weeks started
IterationsOfWeek(weeks) == BisectionAt(SampleSize(weeks)).i

RECURSIVE SumIterations(_)
SumIterations(weeks) ==
    IF weeks = 0 THEN 0 ELSE IterationsOfWeek(weeks) + SumIterations(weeks - 1)

\* C21: for every valid input the search loop of the bisection planner runs
\* at most 100 iterations for each of the 6 week counts, at most 600 in
\* total, and a table of six rows is returned.
C21_BisectionTerminates ==
    ValidPlan =>
        /\ IsTable(preTestResultsBisection)
        /\ Len(preTestResultsBisection.rows) = 6
        /\ \A w \in 1..6 : IterationsOfWeek(w) <= 100
        /\ SumIterations(6) <= 6 * 100

\* C21 witness: a valid plan whose six searches ran to the bound and found
\* a value for the longest duration
C21_Witness ==
    /\ ValidPlan
    /\ SumIterations(6) = 6 * 100
    /\ preTestResultsBisection.rows[6].mde # NotAvailable

\* C25: a URL load with mode = test-analysis leaves the four pre-test fields
\* unchanged, a URL load with mode = pre-test-analysis leaves the five
\* test-analysis fields unchanged, and a URL load whose mode parameter is
\* absent or is not one of the two modes changes neither the mode nor any
\* field.
C25_UrlLoadFrame ==
    [][/\ searchParams'.mode = "test-analysis" => UNCHANGED preTestVars
       /\ searchParams'.mode = "pre-test-analysis" => UNCHANGED testVars
       /\ searchParams'.mode \notin Modes => UNCHANGED pageVars]_vars

\* C25 witness: a test link was opened after a plan link, and the fields of
\* the plan are still there
C25_Witness ==
    /\ searchParams.mode = "test-analysis"
    /\ mode = "test-analysis"
    /\ visitorsA = Int2R(10000)
    /\ weeklyTraffic = Int2R(4)
    /\ confidence = Int2R(50)

\* the fields of the mounted mode
ModeFields == IF mode = "test-analysis" THEN testVars ELSE preTestVars

\* C23: opening the link that handleShare produced from the current mode and
\* fields sets the mode and every field of that mode to the value it had
\* when Share was pressed, empty fields included.
C23_ShareRoundTrip ==
    [][(shareUrl # NoQuery /\ shareUrl = ShareQuery(Fields) /\ openShareUrl)
          => (mode' = mode /\ ModeFields' = ModeFields)]_vars

C22_ResultsDependOnInputsOnly ==
    /\ memo.component = mode
    /\ Computed(memo.component, memo.inputs) = Computed(mode, CallbackInputs(Fields))

\* C22 witness: the projection of a test that was computed for one duration
\* after it had been computed without a duration
C22_Witness ==
    /\ mode = "test-analysis"
    /\ testDuration = Int2R(7)
    /\ Computed(memo.component, memo.inputs).ret = "record"
    /\ Computed(memo.component, memo.inputs).additionalDaysNeeded # Null
    /\ Computed(memo.component, memo.inputs) = resultsDuration

\* requiredN(mde) for the baseline rate and the targets of the fields
RequiredNAt(mde) ==
    calculateRequiredN(mde, FxOfR(BaselineRate), ZAlphaOfFields, ZBetaOfFields)

\* the loop's variables before the first iteration
LoopStart == [lowMde |-> 0, highMde |-> HighMde * FxScale, broke |-> FALSE, i |-> 0]

\* the loop's variables after count more iterations, and every value they had
RECURSIVE LoopStates(_, _, _)
LoopStates(acc, count, n) ==
    IF count = 0 THEN acc
    ELSE IF count = 1
    THEN LET next == BisectionStep(acc.st, FxOfR(n), FxOfR(BaselineRate),
                                   ZAlphaOfFields, ZBetaOfFields)
         IN  [st |-> next, seen |-> acc.seen \cup {next}]
    ELSE LET half == LoopStates(acc, count \div 2, n)
         IN  IF half.st.broke THEN half ELSE LoopStates(half, count - count \div 2, n)

\* the values of the loop's variables at the iterations of the row of weeks
IterationStates(weeks) ==
    LoopStates([st |-> LoopStart, seen |-> {LoopStart}], Iterations, SampleSize(weeks)).seen

\* lowMde = 0 or requiredN(lowMde) > n; highMde = 5 or requiredN(highMde) <= n;
\* no break
SidesKept(st, n) ==
    /\ st.lowMde = 0 \/ RequiredNAt(st.lowMde) > FxOfR(n)
    /\ st.highMde = HighMde * FxScale \/ RequiredNAt(st.highMde) <= FxOfR(n)
    /\ ~st.broke

\* a reported value is detectable with the sample size of its row
FoundIsDetectable(weeks) ==
    BisectionAt(SampleSize(weeks)).highMde < HighMde * FxScale
        => RequiredNAt(BisectionAt(SampleSize(weeks)).highMde) <= FxOfR(SampleSize(weeks))

\* C26 as stated: at every iteration of the search for every week count,
\* 0 <= lowMde < highMde <= 5; lowMde = 0 or requiredN(lowMde) > n;
\* highMde = 5 or requiredN(highMde) <= n; the early exit on midMde = 0 is
\* never taken; every reported mde satisfies requiredN(mde) <= n.
C26_LoopInvariantStrict ==
    ValidPlan =>
        \A w \in 1..MaxWeeks :
            /\ \A st \in IterationStates(w) :
                  /\ 0 <= st.lowMde
                  /\ st.lowMde < st.highMde
                  /\ st.highMde <= HighMde * FxScale
                  /\ SidesKept(st, SampleSize(w))
            /\ FoundIsDetectable(w)

\* C26 amended: at every iteration of the search for every week count,
\* 0 <= lowMde <= highMde <= 5, and lowMde = highMde only when both are 5
\* (no probe was detectable and the search ran into the ceiling);
\* lowMde = 0 or requiredN(lowMde) > n; highMde = 5 or
\* requiredN(highMde) <= n; the early exit on midMde = 0 is never taken;
\* every reported mde satisfies requiredN(mde) <= n.
C26_LoopInvariant ==
    ValidPlan =>
        \A w \in 1..MaxWeeks :
            /\ \A st \in IterationStates(w) :
                  /\ 0 <= st.lowMde
                  /\ st.lowMde <= st.highMde
                  /\ st.lowMde = st.highMde => st.highMde = HighMde * FxScale
                  /\ st.highMde <= HighMde * FxScale
                  /\ SidesKept(st, SampleSize(w))
            /\ FoundIsDetectable(w)

\* C26 witness: a plan whose search for one week ran into the ceiling with
\* lowMde = highMde = 5 and whose search for six weeks found a value
C26_Witness ==
    /\ ValidPlan
    /\ BisectionAt(SampleSize(1)).lowMde = HighMde * FxScale
    /\ BisectionAt(SampleSize(1)).highMde = HighMde * FxScale
    /\ BisectionAt(SampleSize(6)).highMde < HighMde * FxScale
    /\ BisectionAt(SampleSize(6)).lowMde < BisectionAt(SampleSize(6)).highMde

\* the counts are of a size at which the pooled variance is computed without
\* absorption and without underflow
OrdinaryCounts == NumVA.e = 0 /\ NumCA.e = 0 /\ NumVB.e = 0 /\ NumCB.e = 0

\* both rates are 0 or both rates are 1
BothRatesZeroOrOne ==
    \/ NumCA = Zero /\ NumCB = Zero
    \/ NumCA = NumVA /\ NumCB = NumVB

\* the results of revision i are those of the zero-standard-error branch with
\* unequal rates: confidence 1 or 0, pValue 0
UnequalRatesOutcome(i) ==
    \/ AllResults[i].confidence = FxVal(FxOne)
    \/ AllResults[i].confidence = FxVal(0)
    \/ AllResults[i].pValue = FxVal(0)

AllResultsSwapped ==
    <<TestAnalysis(visitorsB, conversionsB, visitorsA, conversionsA),
      CalculatorPage(visitorsB, conversionsB, visitorsA, conversionsA),
      TestAnalysisDuration(visitorsB, conversionsB, visitorsA, conversionsA, testDuration)>>

\* C28: for every valid input, exchanging (visitorsA, conversionsA) with
\* (visitorsB, conversionsB) gives the same pValue, confidence and
\* isSignificant.
C28_ArmSymmetry ==
    \A i \in 1..3 :
        AllResults[i].ret = "record" =>
            /\ AllResultsSwapped[i].ret = "record"
            /\ AllResultsSwapped[i].pValue = AllResults[i].pValue
            /\ AllResultsSwapped[i].confidence = AllResults[i].confidence
            /\ AllResultsSwapped[i].isSignificant = AllResults[i].isSignificant

====
